---- MODULE Spec2Model ----
(***************************************************************************)
(* Bubble game: the progression engine (js/gamestate.js), the bubble       *)
(* entity (js/bubble.js) and the game controller that drives them (the     *)
(* controller script with initializeGame, startGame, updateGame, ...).     *)
(*                                                                         *)
(* Numbers are integers.  Lengths are kept in half pixels (PX units per    *)
(* pixel) so that the half-pixel horizontal bob of Bubble.update is an     *)
(* integer.  The JavaScript value NaN and a non-number argument are two    *)
(* distinguished values outside the range of every number the model uses;  *)
(* arithmetic and comparisons go through jsAdd, jsLt, jsGe and jsStrictEq, *)
(* which treat them as JavaScript does.                                    *)
(***************************************************************************)
EXTENDS Integers, Sequences, FiniteSets, TLC

(***************************************************************************)
(* Bounds of the model.                                                    *)
(***************************************************************************)
\* highest level the engine specification lets levelUp() reach
MaxLevel == 15
\* accepted addScore calls per engine behaviour
MaxPops == 5
\* bubbles spawned per run
MaxSpawned == 2
\* level-up timeouts pending at once
MaxPending == 2
\* startGame calls waiting for audio initialisation at once
MaxAwaiting == 1

(***************************************************************************)
(* JavaScript values.                                                      *)
(***************************************************************************)
NaN == -999999
Undefined == -999998

typeOf(v) == IF v = Undefined THEN "undefined" ELSE "number"

isNaN(v) == v = NaN

\* a + b
jsAdd(a, b) == IF isNaN(a) \/ isNaN(b) THEN NaN ELSE a + b

\* a < b : false when either side is NaN
jsLt(a, b) == ~isNaN(a) /\ ~isNaN(b) /\ a < b

\* a >= b : false when either side is NaN
jsGe(a, b) == ~isNaN(a) /\ ~isNaN(b) /\ a >= b

\* a === b on numbers : NaN is equal to nothing
jsStrictEq(a, b) == ~isNaN(a) /\ ~isNaN(b) /\ a = b

(***************************************************************************)
(* GameState (js/gamestate.js).  A GameState object is a record; every     *)
(* method is an operator from the object (and arguments) to the object     *)
(* after the call.  gameStartTime is written by startGame and read only by *)
(* the statistics log, so it is not kept.                                  *)
(***************************************************************************)
levelTargets == <<5, 10, 20, 35, 55, 80, 110, 145, 185, 230>>

\* new GameState()
GameStateNew ==
    [ score |-> 0,
      level |-> 1,
      timeLeft |-> 30,
      gameRunning |-> FALSE,
      bubbles |-> <<>>,
      lastBubbleSpawn |-> 0,
      currentLevelScore |-> 0,
      bubblesPopped |-> 0,
      bubblesSpawned |-> 0,
      goldBubblesPopped |-> 0 ]

\* faulty variant of getCurrentTarget: every level counted as an extra level
getCurrentTargetAllExtra(gs) ==
    IF gs.level <= Len(levelTargets)
    THEN levelTargets[gs.level]
    ELSE LET extraLevels == gs.level
             lastTarget == levelTargets[Len(levelTargets)]
         IN  lastTarget + (extraLevels * 50)

\* faulty variant of getCurrentTarget: extra levels counted from the first target
getCurrentTargetFromFirst(gs) ==
    IF gs.level <= Len(levelTargets)
    THEN levelTargets[gs.level]
    ELSE LET extraLevels == gs.level - Len(levelTargets)
             lastTarget == levelTargets[1]
         IN  lastTarget + (extraLevels * 50)

getCurrentTarget(gs) ==
    IF gs.level <= Len(levelTargets)
    THEN levelTargets[gs.level]
    ELSE LET extraLevels == gs.level - Len(levelTargets)
             lastTarget == levelTargets[Len(levelTargets)]
         IN  lastTarget + (extraLevels * 50)

\* variant: the target has to be passed, not met
hasReachedTargetStrict(gs) ==
    ~isNaN(gs.currentLevelScore) /\ gs.currentLevelScore > getCurrentTarget(gs)

hasReachedTarget(gs) == jsGe(gs.currentLevelScore, getCurrentTarget(gs))

\* variant: a whole pixel more per level
getBubbleFallSpeedWholePixel(gs) == 2 + ((gs.level - 1) * 2)

\* GameState.getBubbleFallSpeed: 1 + (level - 1) * 0.5 pixels per frame, in
\* half pixels
getBubbleFallSpeed(gs) == 2 + (gs.level - 1)

\* variant: levelling up also gives every live bubble the new fall speed
levelUpSpeedsBubbles(gs) ==
    LET up == [gs EXCEPT !.level = @ + 1,
                         !.currentLevelScore = 0,
                         !.timeLeft = 30]
    IN  [up EXCEPT !.bubbles =
            [i \in 1..Len(@) |-> [@[i] EXCEPT !.speed = getBubbleFallSpeed(up)]]]

\* faulty variant of levelUp: the countdown is not reset
levelUpKeepsTime(gs) ==
    [gs EXCEPT !.level = @ + 1,
               !.currentLevelScore = 0]

\* faulty variant of levelUp: the total score is reset with the level score
levelUpResetsScore(gs) ==
    [gs EXCEPT !.level = @ + 1,
               !.score = 0,
               !.currentLevelScore = 0,
               !.timeLeft = 30]

levelUp(gs) ==
    [gs EXCEPT !.level = @ + 1,
               !.currentLevelScore = 0,
               !.timeLeft = 30]

\* faulty variant of addScore: every bubble worth more than 1 counted as gold
addScoreGoldAboveOne(gs, points) ==
    IF typeOf(points) # "number" \/ jsLt(points, 0)
    THEN gs
    ELSE [gs EXCEPT !.score = jsAdd(@, points),
                    !.currentLevelScore = jsAdd(@, points),
                    !.bubblesPopped = @ + 1,
                    !.goldBubblesPopped =
                        IF ~isNaN(points) /\ points > 1 THEN @ + 1 ELSE @]

\* faulty variant of addScore: the level score stops at the target
addScoreClamped(gs, points) ==
    IF typeOf(points) # "number" \/ jsLt(points, 0)
    THEN gs
    ELSE [gs EXCEPT !.score = jsAdd(@, points),
                    !.currentLevelScore =
                        IF jsGe(jsAdd(@, points), getCurrentTarget(gs))
                        THEN getCurrentTarget(gs)
                        ELSE jsAdd(@, points),
                    !.bubblesPopped = @ + 1,
                    !.goldBubblesPopped =
                        IF jsStrictEq(points, 5) THEN @ + 1 ELSE @]

\* faulty variant of addScore: the total computed from the level score
addScoreFromLevelScore(gs, points) ==
    IF typeOf(points) # "number" \/ jsLt(points, 0)
    THEN gs
    ELSE [gs EXCEPT !.score = jsAdd(gs.currentLevelScore, points),
                    !.currentLevelScore = jsAdd(@, points),
                    !.bubblesPopped = @ + 1,
                    !.goldBubblesPopped =
                        IF jsStrictEq(points, 5) THEN @ + 1 ELSE @]

\* faulty variant of addScore: a pop of 5 points is not counted as a gold pop
addScoreGoldUncounted(gs, points) ==
    IF typeOf(points) # "number" \/ jsLt(points, 0)
    THEN gs
    ELSE [gs EXCEPT !.score = jsAdd(@, points),
                    !.currentLevelScore = jsAdd(@, points),
                    !.bubblesPopped = @ + 1]

addScore(gs, points) ==
    IF typeOf(points) # "number" \/ jsLt(points, 0)
    THEN gs
    ELSE [gs EXCEPT !.score = jsAdd(@, points),
                    !.currentLevelScore = jsAdd(@, points),
                    !.bubblesPopped = @ + 1,
                    !.goldBubblesPopped =
                        IF jsStrictEq(points, 5) THEN @ + 1 ELSE @]

max(a, b) == IF a >= b THEN a ELSE b

\* variant: the interval has no lower limit
getBubbleSpawnRateNoFloor(gs) ==
    LET baseRate == 800
        levelMultiplier == (gs.level - 1) * 100
    IN  baseRate - levelMultiplier

getBubbleSpawnRate(gs) ==
    LET baseRate == 800
        levelMultiplier == (gs.level - 1) * 100
        minRate == 200
    IN  max(baseRate - levelMultiplier, minRate)

\* variant: everything is reset but the level
resetGameKeepsLevel(gs) ==
    [gs EXCEPT !.score = 0,
               !.timeLeft = 30,
               !.gameRunning = FALSE,
               !.bubbles = <<>>,
               !.lastBubbleSpawn = 0,
               !.currentLevelScore = 0,
               !.bubblesPopped = 0,
               !.bubblesSpawned = 0,
               !.goldBubblesPopped = 0]

resetGame(gs) ==
    [gs EXCEPT !.score = 0,
               !.level = 1,
               !.timeLeft = 30,
               !.gameRunning = FALSE,
               !.bubbles = <<>>,
               !.lastBubbleSpawn = 0,
               !.currentLevelScore = 0,
               !.bubblesPopped = 0,
               !.bubblesSpawned = 0,
               !.goldBubblesPopped = 0]

GameState_startGame(gs) == [gs EXCEPT !.gameRunning = TRUE]

\* variant: ending the run also zeroes the countdown
GameState_endGameZeroesTime(gs) ==
    [gs EXCEPT !.gameRunning = FALSE, !.timeLeft = 0]

GameState_endGame(gs) == [gs EXCEPT !.gameRunning = FALSE]

\* variant: no test for bubblesSpawned === 0
calculateAccuracyUnguarded(gs) ==
    [num |-> gs.bubblesPopped * 100, den |-> gs.bubblesSpawned]

\* GameState.calculateAccuracy.  The percentage is the fraction num / den;
\* den = 0 stands for a division by zero.
calculateAccuracy(gs) ==
    IF gs.bubblesSpawned = 0
    THEN [num |-> 0, den |-> 1]
    ELSE [num |-> gs.bubblesPopped * 100, den |-> gs.bubblesSpawned]

\* GameState.validateState; bubbles is an array in every state of the model
validateState(gs) ==
    /\ jsGe(gs.score, 0)
    /\ jsGe(gs.level, 1)
    /\ jsGe(gs.timeLeft, 0)
    /\ jsGe(gs.currentLevelScore, 0)

(***************************************************************************)
(* Bubble (js/bubble.js).  Lengths in half pixels.                         *)
(***************************************************************************)
\* model length units per pixel
PX == 2

\* Bubble.generateRandomRadius: Math.random() * 20 + 20, in [20, 40) pixels
RadiusChoices == {79}

\* Bubble.bobOffset: Math.random() * 2 * PI, as a number of quarter turns
BobOffsetChoices == {1}

\* Bubble.calculateInitialSpeed.  window.gameState is the accessor function
\* () => gameState installed by the controller, not the GameState object, so
\* window.gameState.getBubbleFallSpeed is undefined, the call throws and the
\* catch clause returns 1 (pixel per frame).
calculateInitialSpeed(gs) == 1 * PX

\* variant: a gold bubble is worth 10 points
BubbleGoldTen(gs, x, y, isGold, radius, bobOffset, created) ==
    [ x |-> x,
      y |-> y,
      radius |-> radius,
      isGold |-> isGold,
      speed |-> calculateInitialSpeed(gs),
      points |-> IF isGold THEN 10 ELSE 1,
      bobOffset |-> bobOffset,
      created |-> created ]

\* new Bubble(x, y, color, isGold), with the values Math.random() and
\* Date.now() gave
Bubble(gs, x, y, isGold, radius, bobOffset, created) ==
    [ x |-> x,
      y |-> y,
      radius |-> radius,
      isGold |-> isGold,
      speed |-> calculateInitialSpeed(gs),
      points |-> IF isGold THEN 5 ELSE 1,
      bobOffset |-> bobOffset,
      created |-> created ]

\* sin at 0, 1, 2, 3 quarter turns
sinQuarter == <<0, 1, 0, -1>>

\* Math.sin(time * 2 + bobOffset) * 0.5 pixels, time = (Date.now() - created) / 1000:
\* the angle grows by a quarter turn every 785 ms
bobAmount(b, currentTime) ==
    sinQuarter[((b.bobOffset + ((currentTime - b.created) \div 785)) % 4) + 1]

\* Bubble.update
\* variant: the bubble bobs and does not fall
updateBobOnly(b, currentTime) ==
    [b EXCEPT !.x = @ + bobAmount(b, currentTime)]

update(b, currentTime) ==
    [b EXCEPT !.y = @ + b.speed,
              !.x = @ + bobAmount(b, currentTime)]

\* variant: a point on the boundary is a miss
containsPointStrict(b, x, y) ==
    ((x - b.x) * (x - b.x)) + ((y - b.y) * (y - b.y)) < b.radius * b.radius

\* Bubble.containsPoint: sqrt(dx^2 + dy^2) <= radius
containsPoint(b, x, y) ==
    ((x - b.x) * (x - b.x)) + ((y - b.y) * (y - b.y)) <= b.radius * b.radius

\* variant: a bubble whose top edge is on the bottom line is already off screen
isOffScreenAtEdge(b, height) == b.y - b.radius >= height

\* Bubble.isOffScreen
isOffScreen(b, canvasHeight) == b.y - b.radius > canvasHeight

(***************************************************************************)
(* AudioManager (js/audio.js), as far as the controller depends on it.     *)
(***************************************************************************)
\* new AudioManager()
AudioManagerNew == [ initialized |-> FALSE, contextState |-> "none" ]

\* AudioManager.isReady
isReady(am) == am.initialized /\ am.contextState = "running"

(***************************************************************************)
(* State: the globals of the controller, the browser's timers that call    *)
(* back into it, and the clock.                                            *)
(***************************************************************************)
VARIABLES
    gameState,        \* the global GameState object
    audioManager,     \* the global AudioManager object
    gameLoop,         \* TRUE when gameLoop holds an interval handle (not null)
    timerInterval,    \* TRUE when timerInterval holds an interval handle
    liveIntervals,    \* intervals the browser will still call: [loop, timer]
    levelUpTimeouts,  \* level-up timeouts set by handleLevelComplete, not yet run
    startsAwaiting,   \* startGame calls suspended at await audioManager.initialize()
    now,              \* Date.now() as updateGame last read it
    sumAdded,         \* sum of the points passed to addScore since the last resetGame
    op                \* the call made last.  Engine specification: the method,
                      \* its argument and the object before the call.
                      \* Controller specification: startGame (and whether it
                      \* got past its await), processBubblePop or the level-up
                      \* timeout's callback, "other" after a handler that made
                      \* none of these calls

vars == <<gameState, audioManager, gameLoop, timerInterval, liveIntervals,
          levelUpTimeouts, startsAwaiting, now, sumAdded, op>>

\* what the engine specification leaves alone
controllerVars == <<audioManager, gameLoop, timerInterval, liveIntervals,
                    levelUpTimeouts, startsAwaiting, now>>

\* The clock, in milliseconds.  resetGame drops every timestamp the game
\* state keeps (the bubbles with their creation times, lastBubbleSpawn) and
\* the code reads Date.now() only to subtract a kept timestamp from it, so
\* the clock is set back to StartTime when a game starts.  StartTime, like
\* any real Date.now(), is more than a spawn interval after
\* lastBubbleSpawn = 0.
StartTime == 1000

(***************************************************************************)
(* Engine specification: one GameState object under any sequence of calls  *)
(* of its methods.  The object starts as constructed, at a level and with  *)
(* a countdown value drawn from the inputs below (levelUp() and the        *)
(* controller's timer callback produce them).                              *)
(***************************************************************************)
LevelInputs == {1, 5, 10, 11, 50}
TimeLeftInputs == {0, 1, 17, 30}
\* values of bubblesSpawned, which the controller's spawnBubble counts up
SpawnedInputs == {0, 3}
PointsInputs == {1, 2, 5, 0, -3, NaN, Undefined}

isPositiveNumber(v) == typeOf(v) = "number" /\ ~isNaN(v) /\ v > 0

EngineInit ==
    /\ gameState \in { [GameStateNew EXCEPT !.level = l, !.timeLeft = t,
                                             !.bubblesSpawned = n] :
                         l \in LevelInputs, t \in TimeLeftInputs,
                         n \in SpawnedInputs }
    /\ audioManager = AudioManagerNew
    /\ gameLoop = FALSE
    /\ timerInterval = FALSE
    /\ liveIntervals = [loop |-> 0, timer |-> 0]
    /\ levelUpTimeouts = 0
    /\ startsAwaiting = 0
    /\ now = StartTime
    /\ sumAdded = 0
    /\ op = [name |-> "new"]

CallAddScore ==
    \E points \in PointsInputs :
        /\ gameState.bubblesPopped < MaxPops
        /\ gameState' = addScore(gameState, points)
        /\ sumAdded' = IF isPositiveNumber(points) THEN sumAdded + points ELSE sumAdded
        /\ op' = [name |-> "addScore", points |-> points, before |-> gameState]
        /\ UNCHANGED controllerVars

CallLevelUp ==
    /\ gameState.level < MaxLevel
    /\ gameState' = levelUp(gameState)
    /\ op' = [name |-> "levelUp", before |-> gameState]
    /\ UNCHANGED <<controllerVars, sumAdded>>

CallResetGame ==
    /\ gameState' = resetGame(gameState)
    /\ sumAdded' = 0
    /\ op' = [name |-> "resetGame", before |-> gameState]
    /\ UNCHANGED controllerVars

CallStartGame ==
    /\ gameState' = GameState_startGame(gameState)
    /\ op' = [name |-> "startGame", before |-> gameState]
    /\ UNCHANGED <<controllerVars, sumAdded>>

CallEndGame ==
    /\ gameState' = GameState_endGame(gameState)
    /\ op' = [name |-> "endGame", before |-> gameState]
    /\ UNCHANGED <<controllerVars, sumAdded>>

EngineNext ==
    \/ CallAddScore
    \/ CallLevelUp
    \/ CallResetGame
    \/ CallStartGame
    \/ CallEndGame

EngineSpec == EngineInit /\ [][EngineNext]_vars

(***************************************************************************)
(* The controller.  A world is the record of what its handlers read and    *)
(* write; a handler is an operator from the world (and the event's data)   *)
(* to the world after the handler has returned.                            *)
(***************************************************************************)
World ==
    [ gameState |-> gameState,
      audioManager |-> audioManager,
      gameLoop |-> gameLoop,
      timerInterval |-> timerInterval,
      liveIntervals |-> liveIntervals,
      levelUpTimeouts |-> levelUpTimeouts ]

\* canvas.height and canvas.width as setupCanvasSize sets them on a desktop
canvasHeight == 600 * PX
canvasWidth == 800 * PX

\* spawnBubble: x = Math.random() * (canvas.width - 2 * margin) + margin
XChoices == {100 * PX}

\* milliseconds from one read of Date.now() by updateGame to the next: the
\* interval asks for 16 ms, a loaded browser gives it less often
FrameDeltas == {80}

\* frames the game loop runs in a row before the model looks at another event:
\* a bubble spawned by the first of them then reaches the top of the canvas,
\* and 11 frames are 880 ms, a little more than the spawn interval of level 1
FrameBurst == 11

\* pointer positions on the canvas, already scaled
ClickPoints == {<<105 * PX, 0>>, <<300 * PX, 0>>}

stopGameLoop(w) ==
    IF w.gameLoop
    THEN [w EXCEPT !.gameLoop = FALSE, !.liveIntervals.loop = @ - 1]
    ELSE w

startGameLoop(w) ==
    LET w1 == stopGameLoop(w)
    IN  [w1 EXCEPT !.gameLoop = TRUE, !.liveIntervals.loop = @ + 1]

stopTimer(w) ==
    IF w.timerInterval
    THEN [w EXCEPT !.timerInterval = FALSE, !.liveIntervals.timer = @ - 1]
    ELSE w

\* variant: a new interval is set without clearing the one in timerInterval
startTimerNoStop(w) ==
    [w EXCEPT !.timerInterval = TRUE, !.liveIntervals.timer = @ + 1]

startTimer(w) ==
    LET w1 == stopTimer(w)
    IN  [w1 EXCEPT !.timerInterval = TRUE, !.liveIntervals.timer = @ + 1]

\* gameState.bubbles.splice(index, 1), index counted from 1
splice(bubbles, index) ==
    [i \in 1..(Len(bubbles) - 1) |->
        IF i < index THEN bubbles[i] ELSE bubbles[i + 1]]

\* handleLevelComplete.  AudioManager has no method playLevelCompleteSound:
\* when isReady() is true the call throws a TypeError, the catch clause logs
\* it and the timeout that calls levelUp() is never set.
handleLevelComplete(w) ==
    IF isReady(w.audioManager)
    THEN w
    ELSE [w EXCEPT !.levelUpTimeouts = @ + 1]

\* variant: the popped bubble stays in the collection
processBubblePopKeeps(w, index) ==
    LET bubble == w.gameState.bubbles[index]
        w1 == [w EXCEPT !.gameState = addScore(@, bubble.points)]
    IN  IF hasReachedTarget(w1.gameState)
        THEN handleLevelComplete(w1)
        ELSE w1

processBubblePop(w, index) ==
    LET bubble == w.gameState.bubbles[index]
        scored == addScore(w.gameState, bubble.points)
        w1 == [w EXCEPT !.gameState = [scored EXCEPT !.bubbles = splice(@, index)]]
    IN  IF hasReachedTarget(w1.gameState)
        THEN handleLevelComplete(w1)
        ELSE w1

\* variant: the loop runs from the first bubble up and stops at the first hit
hitIndexLowest(bubbles, x, y) ==
    LET hits == {i \in 1..Len(bubbles) : containsPoint(bubbles[i], x, y)}
    IN  IF hits = {} THEN 0 ELSE CHOOSE i \in hits : \A j \in hits : i <= j

\* the loop of handleCanvasClick and handleCanvasTouch: the highest index whose
\* bubble contains the point, 0 when none does
hitIndex(bubbles, x, y) ==
    LET hits == {i \in 1..Len(bubbles) : containsPoint(bubbles[i], x, y)}
    IN  IF hits = {} THEN 0 ELSE CHOOSE i \in hits : \A j \in hits : j <= i

\* variant: no test of gameRunning
handleCanvasClickAlways(w, x, y) ==
    LET i == hitIndex(w.gameState.bubbles, x, y)
    IN  IF i = 0 THEN w ELSE processBubblePop(w, i)

handleCanvasClick(w, x, y) ==
    IF ~w.gameState.gameRunning
    THEN w
    ELSE LET i == hitIndex(w.gameState.bubbles, x, y)
         IN  IF i = 0 THEN w ELSE processBubblePop(w, i)

handleCanvasTouch(w, x, y) ==
    IF ~w.gameState.gameRunning
    THEN w
    ELSE LET i == hitIndex(w.gameState.bubbles, x, y)
         IN  IF i = 0 THEN w ELSE processBubblePop(w, i)

\* variant: game over puts the level back to 1
endGameResetsLevel(w) ==
    stopTimer(stopGameLoop(
        [w EXCEPT !.gameState = [GameState_endGame(@) EXCEPT !.level = 1]]))

\* endGame.  AudioManager has no method playGameOverSound either: when
\* isReady() is true the call throws after the three stops below, and only
\* the game-over overlay and the buttons are skipped.
endGame(w) ==
    stopTimer(stopGameLoop([w EXCEPT !.gameState = GameState_endGame(@)]))

\* startGame from "Reset game state" on
startGameBody(w) ==
    startTimer(startGameLoop(
        [w EXCEPT !.gameState = GameState_startGame(resetGame(@))]))

\* variant: the countdown is decremented and the run is never ended
timerCallbackNeverEnds(w) ==
    IF ~w.gameState.gameRunning
    THEN stopTimer(w)
    ELSE [w EXCEPT !.gameState.timeLeft = @ - 1]

\* variant: the run is ended only when the countdown has gone below zero
timerCallbackLate(w) ==
    IF ~w.gameState.gameRunning
    THEN stopTimer(w)
    ELSE LET w1 == [w EXCEPT !.gameState.timeLeft = @ - 1]
         IN  IF w1.gameState.timeLeft < 0 THEN endGame(w1) ELSE w1

\* the callback startTimer gives to setInterval
timerCallback(w) ==
    IF ~w.gameState.gameRunning
    THEN stopTimer(w)
    ELSE LET w1 == [w EXCEPT !.gameState.timeLeft = @ - 1]
         IN  IF w1.gameState.timeLeft <= 0 THEN endGame(w1) ELSE w1

\* the callback handleLevelComplete gives to setTimeout
levelUpCallback(w) ==
    [w EXCEPT !.gameState = levelUp(@), !.levelUpTimeouts = @ - 1]

\* variant: the new bubble is not counted
spawnBubbleUncounted(gs, rnd, currentTime) ==
    LET y == -50 * PX
        bubble == Bubble(gs, rnd.x, y, rnd.isGold, rnd.radius, rnd.bobOffset,
                         currentTime)
    IN  [gs EXCEPT !.bubbles = Append(@, bubble)]

\* spawnBubble; rnd holds what Math.random() gives: x, isGold, radius, bobOffset
spawnBubble(gs, rnd, currentTime) ==
    LET y == -50 * PX
        bubble == Bubble(gs, rnd.x, y, rnd.isGold, rnd.radius, rnd.bobOffset,
                         currentTime)
    IN  [gs EXCEPT !.bubbles = Append(@, bubble),
                   !.bubblesSpawned = @ + 1]

\* the loop of updateBubbles from index i down to 1
RECURSIVE updateBubblesFrom(_, _, _)
updateBubblesFrom(bubbles, i, currentTime) ==
    IF i < 1
    THEN bubbles
    ELSE LET bubble == update(bubbles[i], currentTime)
             moved == [bubbles EXCEPT ![i] = bubble]
             kept == IF isOffScreen(bubble, canvasHeight)
                     THEN splice(moved, i)
                     ELSE moved
         IN  updateBubblesFrom(kept, i - 1, currentTime)

\* variant: the loop runs from the first bubble up, so the bubble after a
\* removed one is skipped
RECURSIVE updateBubblesUp(_, _, _)
updateBubblesUp(bubbles, i, currentTime) ==
    IF i > Len(bubbles)
    THEN bubbles
    ELSE LET bubble == update(bubbles[i], currentTime)
             moved == [bubbles EXCEPT ![i] = bubble]
             kept == IF isOffScreen(bubble, canvasHeight)
                     THEN splice(moved, i)
                     ELSE moved
         IN  updateBubblesUp(kept, i + 1, currentTime)

updateBubblesSkipping(gs, currentTime) ==
    [gs EXCEPT !.bubbles = updateBubblesUp(@, 1, currentTime)]

\* variant: every bubble that falls off screen costs a point
updateBubblesPenalty(gs, currentTime) ==
    LET after == updateBubblesFrom(gs.bubbles, Len(gs.bubbles), currentTime)
    IN  [gs EXCEPT !.bubbles = after,
                   !.score = @ - (Len(gs.bubbles) - Len(after))]

\* variant: a bubble that falls off screen is counted as popped
updateBubblesCountsPop(gs, currentTime) ==
    LET after == updateBubblesFrom(gs.bubbles, Len(gs.bubbles), currentTime)
    IN  [gs EXCEPT !.bubbles = after,
                   !.bubblesPopped = @ + (Len(gs.bubbles) - Len(after))]

updateBubbles(gs, currentTime) ==
    [gs EXCEPT !.bubbles = updateBubblesFrom(@, Len(@), currentTime)]

\* variant: a bubble is spawned as soon as the interval has elapsed
updateGameAtInterval(gs, currentTime, rnd) ==
    IF ~gs.gameRunning
    THEN gs
    ELSE LET spawned ==
                 IF currentTime - gs.lastBubbleSpawn >= getBubbleSpawnRate(gs)
                 THEN [spawnBubble(gs, rnd, currentTime)
                          EXCEPT !.lastBubbleSpawn = currentTime]
                 ELSE gs
         IN  updateBubbles(spawned, currentTime)

\* one call of updateGame, Date.now() being currentTime
updateGame(gs, currentTime, rnd) ==
    IF ~gs.gameRunning
    THEN gs
    ELSE LET spawned ==
                 IF currentTime - gs.lastBubbleSpawn > getBubbleSpawnRate(gs)
                 THEN [spawnBubble(gs, rnd, currentTime)
                          EXCEPT !.lastBubbleSpawn = currentTime]
                 ELSE gs
         IN  updateBubbles(spawned, currentTime)

\* n calls of updateGame in a row, d milliseconds apart, the first at
\* currentTime; every bubble spawned by them gets the draws rnd
RECURSIVE updateGameTimes(_, _, _, _, _)
updateGameTimes(gs, currentTime, d, rnd, n) ==
    IF n = 0
    THEN gs
    ELSE updateGameTimes(updateGame(gs, currentTime, rnd),
                         currentTime + d, d, rnd, n - 1)

(***************************************************************************)
(* Controller specification: the page after initializeGame, under any      *)
(* order of user input and timer callbacks.  The game loop is followed a   *)
(* burst of FrameBurst frames at a time.                                   *)
(***************************************************************************)
Commit(w) ==
    /\ gameState' = w.gameState
    /\ audioManager' = w.audioManager
    /\ gameLoop' = w.gameLoop
    /\ timerInterval' = w.timerInterval
    /\ liveIntervals' = w.liveIntervals
    /\ levelUpTimeouts' = w.levelUpTimeouts

Init ==
    /\ gameState = GameStateNew
    /\ audioManager = AudioManagerNew
    /\ gameLoop = FALSE
    /\ timerInterval = FALSE
    /\ liveIntervals = [loop |-> 0, timer |-> 0]
    /\ levelUpTimeouts = 0
    /\ startsAwaiting = 0
    /\ now = StartTime
    /\ sumAdded = 0
    /\ op = [name |-> "initializeGame"]

\* startGame called in world w.  With the audio not initialised the call
\* awaits audioManager.initialize(): that ends at once when the AudioContext
\* is created running ("ready") or cannot be created ("failed"), and it waits
\* for resume() and a 100 ms timeout otherwise ("pending"), during which other
\* handlers run.
startGameCalled(w) ==
    IF w.audioManager.initialized
    THEN /\ Commit(startGameBody(w))
         /\ now' = StartTime
         /\ sumAdded' = 0
         /\ op' = [name |-> "startGame", started |-> TRUE]
         /\ UNCHANGED startsAwaiting
    ELSE \E outcome \in {"ready", "failed", "pending"} :
            IF outcome = "pending"
            THEN /\ startsAwaiting < MaxAwaiting
                 /\ startsAwaiting' = startsAwaiting + 1
                 /\ Commit([w EXCEPT !.audioManager.contextState = "suspended"])
                 /\ op' = [name |-> "startGame", started |-> FALSE]
                 /\ UNCHANGED <<now, sumAdded>>
            ELSE /\ Commit(startGameBody(
                        [w EXCEPT !.audioManager =
                            IF outcome = "ready"
                            THEN [initialized |-> TRUE, contextState |-> "running"]
                            ELSE [initialized |-> FALSE, contextState |-> "none"]]))
                 /\ now' = StartTime
                 /\ sumAdded' = 0
                 /\ op' = [name |-> "startGame", started |-> TRUE]
                 /\ UNCHANGED startsAwaiting

\* the start button, or the space bar while no game is running
StartGame ==
    /\ ~gameState.gameRunning
    /\ startGameCalled(World)

\* the restart button, or Ctrl+R
RestartGame ==
    /\ startGameCalled(stopTimer(stopGameLoop(World)))

\* a suspended startGame goes on after its await
StartGameResume ==
    /\ startsAwaiting > 0
    /\ startsAwaiting' = startsAwaiting - 1
    /\ \E ok \in BOOLEAN :
          Commit(startGameBody(
              [World EXCEPT !.audioManager =
                  IF ok
                  THEN [initialized |-> TRUE, contextState |-> "running"]
                  ELSE [initialized |-> FALSE, contextState |-> "suspended"]]))
    /\ now' = StartTime
    /\ sumAdded' = 0
    /\ op' = [name |-> "startGame", started |-> TRUE]

\* the game loop's interval fires FrameBurst times
UpdateGame ==
    /\ liveIntervals.loop > 0
    /\ gameState.gameRunning
    /\ \E d \in FrameDeltas, x \in XChoices, isGold \in BOOLEAN,
          radius \in RadiusChoices, bobOffset \in BobOffsetChoices :
          LET rnd == [x |-> x, isGold |-> isGold, radius |-> radius,
                      bobOffset |-> bobOffset]
              gs == updateGameTimes(gameState, now + d, d, rnd, FrameBurst)
          IN  /\ gs.bubblesSpawned <= MaxSpawned
              /\ gameState' = gs
              /\ now' = now + (d * FrameBurst)
    /\ op' = [name |-> "other"]
    /\ UNCHANGED <<audioManager, gameLoop, timerInterval, liveIntervals,
                   levelUpTimeouts, startsAwaiting, sumAdded>>

\* the countdown's interval fires
TimerCallback ==
    /\ liveIntervals.timer > 0
    /\ Commit(timerCallback(World))
    /\ op' = [name |-> "other"]
    /\ UNCHANGED <<startsAwaiting, now, sumAdded>>

\* points passed to addScore by a click or touch at (x, y)
pointsAt(gs, x, y) ==
    LET i == hitIndex(gs.bubbles, x, y)
    IN  IF gs.gameRunning /\ i > 0 THEN gs.bubbles[i].points ELSE 0

HandleCanvasClick ==
    /\ \E p \in ClickPoints :
          LET w == handleCanvasClick(World, p[1], p[2])
          IN  /\ w.levelUpTimeouts <= MaxPending
              /\ Commit(w)
              /\ sumAdded' = sumAdded + pointsAt(gameState, p[1], p[2])
              /\ op' = [name |-> IF w.gameState.bubblesPopped > gameState.bubblesPopped
                                 THEN "processBubblePop"
                                 ELSE "other"]
    /\ UNCHANGED <<startsAwaiting, now>>

HandleCanvasTouch ==
    /\ \E p \in ClickPoints :
          LET w == handleCanvasTouch(World, p[1], p[2])
          IN  /\ w.levelUpTimeouts <= MaxPending
              /\ Commit(w)
              /\ sumAdded' = sumAdded + pointsAt(gameState, p[1], p[2])
              /\ op' = [name |-> IF w.gameState.bubblesPopped > gameState.bubblesPopped
                                 THEN "processBubblePop"
                                 ELSE "other"]
    /\ UNCHANGED <<startsAwaiting, now>>

\* a level-up timeout fires, 2000 ms after handleLevelComplete set it
LevelUpTimeout ==
    /\ levelUpTimeouts > 0
    /\ Commit(levelUpCallback(World))
    /\ op' = [name |-> "levelUpCallback"]
    /\ UNCHANGED <<startsAwaiting, now, sumAdded>>

Next ==
    \/ StartGame
    \/ RestartGame
    \/ StartGameResume
    \/ UpdateGame
    \/ TimerCallback
    \/ HandleCanvasClick
    \/ HandleCanvasTouch
    \/ LevelUpTimeout

Spec == Init /\ [][Next]_vars

\* Spec with the browser's guarantees: an interval that is not cleared keeps
\* firing, a timeout that was set fires, an await on audio initialisation ends
FairSpec ==
    /\ Spec
    /\ WF_vars(TimerCallback)
    /\ WF_vars(LevelUpTimeout)
    /\ WF_vars(StartGameResume)

(***************************************************************************)
(* Properties of the engine, under EngineSpec.                             *)
(***************************************************************************)
\* the level targets as the documentation lists them
TargetTable == <<5, 10, 20, 35, 55, 80, 110, 145, 185, 230>>

numeric(gs) == ~isNaN(gs.score) /\ ~isNaN(gs.currentLevelScore)

\* an addScore call with a number that is not negative just returned, on an
\* object whose scores were numbers
validAddScore ==
    /\ op.name = "addScore"
    /\ typeOf(op.points) = "number"
    /\ ~isNaN(op.points)
    /\ op.points >= 0
    /\ numeric(op.before)

\* C1: getCurrentTarget() depends on the level alone: for levels 1..10 it is
\* the level-th value of 5, 10, 20, 35, 55, 80, 110, 145, 185, 230, and for
\* every level above 10 it is 230 + (level - 10) * 50.
TargetSequenceExact ==
    /\ getCurrentTarget(gameState) =
          IF gameState.level <= 10
          THEN TargetTable[gameState.level]
          ELSE 230 + ((gameState.level - 10) * 50)
    /\ getCurrentTarget(gameState) =
          getCurrentTarget([GameStateNew EXCEPT !.level = gameState.level])

\* C1: level 15 with a score, where the target is 480
TargetSequenceExactWitness ==
    /\ gameState.level = 15
    /\ gameState.currentLevelScore > 0
    /\ getCurrentTarget(gameState) = 480

\* C2: after levelUp() the level score is 0, the countdown is 30 and the level
\* is the level before plus 1, whatever the three were before the call.
LevelUpResets ==
    op.name = "levelUp" =>
        /\ gameState.currentLevelScore = 0
        /\ gameState.timeLeft = 30
        /\ gameState.level = op.before.level + 1

\* C2: levelUp() returned from a level above 1, a level score above 0 and a
\* countdown that was not 30
LevelUpResetsWitness ==
    /\ op.name = "levelUp"
    /\ op.before.level > 1
    /\ op.before.currentLevelScore > 0
    /\ op.before.timeLeft = 17
    /\ gameState.timeLeft = 30

\* C8: an addScore(points) call with valid points adds exactly points to score
\* and to the level score, adds 1 to the popped count, adds 1 to the gold count
\* if and only if points is 5, and leaves level, countdown and running alone.
AddScoreEffect ==
    validAddScore =>
        /\ gameState.score = op.before.score + op.points
        /\ gameState.currentLevelScore = op.before.currentLevelScore + op.points
        /\ gameState.bubblesPopped = op.before.bubblesPopped + 1
        /\ gameState.goldBubblesPopped =
              op.before.goldBubblesPopped + (IF op.points = 5 THEN 1 ELSE 0)
        /\ gameState.level = op.before.level
        /\ gameState.timeLeft = op.before.timeLeft
        /\ gameState.gameRunning = op.before.gameRunning

\* C8: addScore(5) returned on a running game that had popped a bubble of 2
AddScoreEffectWitness ==
    /\ validAddScore
    /\ op.points = 5
    /\ op.before.score = 2
    /\ op.before.gameRunning
    /\ gameState.score = 7
    /\ gameState.goldBubblesPopped = 1
    /\ gameState.bubblesPopped = 2

\* C9: the level score is never clamped at the target: addScore(p) adds the
\* whole of p to it also when that passes the target, and hasReachedTarget()
\* is true exactly when the level score is at least the target.
OvershootNotClamped ==
    /\ validAddScore =>
          gameState.currentLevelScore = op.before.currentLevelScore + op.points
    /\ hasReachedTarget(gameState) <=>
          (/\ ~isNaN(gameState.currentLevelScore)
           /\ gameState.currentLevelScore >=
                (IF gameState.level <= 10
                 THEN TargetTable[gameState.level]
                 ELSE 230 + ((gameState.level - 10) * 50)))

\* C9: level 1, level score 4, addScore(5): level score 9, target reached
OvershootNotClampedWitness ==
    /\ validAddScore
    /\ op.points = 5
    /\ op.before.level = 1
    /\ op.before.currentLevelScore = 4
    /\ gameState.currentLevelScore = 9
    /\ hasReachedTarget(gameState)

\* C10: addScore(-3) and addScore(NaN) do nothing: score, level score and
\* popped count after the call are what they were before it.
InvalidAddScoreNoOp ==
    (op.name = "addScore" /\ op.points \in {-3, NaN}) =>
        /\ gameState.score = op.before.score
        /\ gameState.currentLevelScore = op.before.currentLevelScore
        /\ gameState.bubblesPopped = op.before.bubblesPopped

(***************************************************************************)
(* Properties of the game as the controller drives it, under Spec and      *)
(* FairSpec.                                                               *)
(***************************************************************************)
\* a click or a touch just popped a bubble
popped == op.name = "processBubblePop"

\* a startGame call just went through resetGame(): a run began
runStarted == op.name = "startGame" /\ op.started

\* C3: levelUp() is invoked only while hasReachedTarget() is true: at every
\* invocation of levelUp() the level score is at least the target, also when
\* more bubbles were popped during the 2 seconds before it.
LevelUpOnlyOnTarget ==
    [][op'.name = "levelUpCallback" => hasReachedTarget(gameState)]_vars

\* C4: when a pop in a running game makes hasReachedTarget() true, levelUp()
\* is invoked in the end, which raises the level above what it was at the pop
\* (unless the player starts another run first).
TargetReachedLeadsToLevelUp ==
    (/\ popped
     /\ gameState.gameRunning
     /\ hasReachedTarget(gameState)) ~> (op.name = "levelUpCallback" \/ runStarted)

audioReady == [initialized |-> TRUE, contextState |-> "running"]

audioUnavailable == [initialized |-> FALSE, contextState |-> "none"]

\* the world once every level-up timeout that is set has fired
RECURSIVE afterLevelUpTimeouts(_)
afterLevelUpTimeouts(w) ==
    IF w.levelUpTimeouts > 0
    THEN afterLevelUpTimeouts(levelUpCallback(w))
    ELSE w

\* C5: sound never affects the core state: from the same state, the same
\* click (followed by the 2 seconds of the presentation delay) and the same
\* timer tick leave the same GameState and the same intervals whether the
\* audio manager is ready or unavailable.
SoundNeverAffectsCore ==
    LET ready == [World EXCEPT !.audioManager = audioReady]
        unavailable == [World EXCEPT !.audioManager = audioUnavailable]
    IN  /\ \A p \in ClickPoints :
              afterLevelUpTimeouts(handleCanvasClick(ready, p[1], p[2])).gameState
            = afterLevelUpTimeouts(handleCanvasClick(unavailable, p[1], p[2])).gameState
        /\ [timerCallback(ready) EXCEPT !.audioManager = audioUnavailable]
            = timerCallback(unavailable)

\* C6: during a run the score is the sum of the points added since the run
\* started, through level-ups and timer ticks, and it never decreases.
ScoreIsSumOfPoints ==
    [][/\ gameState'.score = sumAdded'
       /\ ~runStarted' => gameState'.score >= gameState.score]_vars

\* C6: a gold bubble popped on level 1, the level-up, timer ticks, and a plain
\* bubble popped on level 2
ScoreIsSumOfPointsWitness ==
    /\ popped
    /\ gameState.score = 6
    /\ sumAdded = 6
    /\ gameState.level = 2
    /\ gameState.currentLevelScore = 1
    /\ gameState.timeLeft < 30

\* C7: levelUp() changes level, level score and countdown and nothing else:
\* score, popped, gold and spawned counts, running and the bubbles stay.
LevelUpKeepsTheRest ==
    [][op'.name = "levelUpCallback" =>
          [gameState' EXCEPT !.level = 0, !.currentLevelScore = 0, !.timeLeft = 0]
        = [gameState EXCEPT !.level = 0, !.currentLevelScore = 0, !.timeLeft = 0]]_vars

\* C7: levelUp() has run in a running game with 5 points and a bubble on the
\* canvas
LevelUpKeepsTheRestWitness ==
    /\ op.name = "levelUpCallback"
    /\ gameState.gameRunning
    /\ gameState.level = 2
    /\ gameState.score = 5
    /\ gameState.bubblesPopped = 1
    /\ gameState.goldBubblesPopped = 1
    /\ gameState.bubblesSpawned = 2
    /\ Len(gameState.bubbles) = 1

TimerZeroEndsGame ==
    gameState.timeLeft <= 0 =>
        /\ ~gameState.gameRunning
        /\ ~gameLoop
        /\ ~timerInterval
        /\ liveIntervals.loop = 0
        /\ liveIntervals.timer = 0

TimerZeroEndsGameWitness ==
    /\ gameState.timeLeft = 0
    /\ ~gameState.gameRunning
    /\ gameState.bubblesSpawned > 0
    /\ op.name = "other"

\* C13: in every state of a game the controller drives, validateState() is
\* true: score >= 0, level >= 1, countdown >= 0 and level score >= 0.
StateAlwaysValid ==
    /\ validateState(gameState)
    /\ gameState.score >= 0
    /\ gameState.level >= 1
    /\ gameState.timeLeft >= 0
    /\ gameState.currentLevelScore >= 0

\* a run that levelled up and then ran out of time
StateAlwaysValidWitness ==
    /\ gameState.timeLeft = 0
    /\ gameState.level >= 2
    /\ gameState.score >= 5
    /\ validateState(gameState)

\* C14: once the run has ended (countdown 0, not running), score, level,
\* level score and countdown stay as they are in every step that is not the
\* start of the next run.
EndedIsTerminal ==
    [][(/\ ~gameState.gameRunning
        /\ gameState.timeLeft <= 0
        /\ ~(op'.name = "startGame" /\ op'.started))
       => /\ gameState'.score = gameState.score
          /\ gameState'.level = gameState.level
          /\ gameState'.currentLevelScore = gameState.currentLevelScore
          /\ gameState'.timeLeft = gameState.timeLeft]_vars

\* C15: immediately after the controller has started a run (resetGame, then
\* GameState.startGame) score is 0, level 1, level score 0, countdown 30, the
\* spawned, popped and gold popped counts are 0, no bubble is live and the
\* game is running, whatever the state was before.
StartResetsEngine ==
    runStarted =>
        /\ gameState.score = 0
        /\ gameState.level = 1
        /\ gameState.currentLevelScore = 0
        /\ gameState.timeLeft = 30
        /\ gameState.bubblesSpawned = 0
        /\ gameState.bubblesPopped = 0
        /\ gameState.goldBubblesPopped = 0
        /\ gameState.bubbles = <<>>
        /\ gameState.gameRunning

\* a run started while a level-up of the run before it is still due
StartResetsEngineWitness ==
    /\ runStarted
    /\ levelUpTimeouts > 0
    /\ gameState.level = 1

\* C16: GameState.endGame() called on an engine that is not running changes
\* nothing: running stays false, and score, level, level score, countdown and
\* the counters are what they were.
EndGameIdempotent ==
    (op.name = "endGame" /\ ~op.before.gameRunning) =>
        /\ ~gameState.gameRunning
        /\ gameState = op.before

EndGameIdempotentWitness ==
    /\ op.name = "endGame"
    /\ ~op.before.gameRunning
    /\ op.before.bubblesPopped > 0
    /\ op.before.timeLeft > 0
    /\ ~gameState.gameRunning

(***************************************************************************)
(* Bubbles: speed, points, and which bubble a click pops.                  *)
(***************************************************************************)
\* C17: a bubble spawned while the engine is at level L gets the speed
\* max(1 + (L - 1) * 0.5 + v, 0.5) pixels with |v| <= 0.25: every bubble the
\* game loop has just created has a speed within a quarter pixel of the
\* engine's fall speed at that level (both sides doubled to stay in integers).
SpawnSpeedFromLevel ==
    [][\A i \in 1..Len(gameState'.bubbles) :
          LET b == gameState'.bubbles[i]
              fall == getBubbleFallSpeed(gameState)
          IN  (b.created > now /\ gameState'.level = gameState.level) =>
                  /\ 2 * b.speed >= max((2 * fall) - 1, 2)
                  /\ 2 * b.speed <= (2 * fall) + 1]_vars

\* C18: a bubble's speed is fixed at spawn: in every step (level-up, pop,
\* timer tick, game loop frames) a bubble that is live before and after the
\* step has the same speed after it as before it.
SpeedFixedAtSpawn ==
    [][\A i \in 1..Len(gameState.bubbles), j \in 1..Len(gameState'.bubbles) :
          gameState'.bubbles[j].created = gameState.bubbles[i].created =>
              gameState'.bubbles[j].speed = gameState.bubbles[i].speed]_vars

\* a level-up with bubbles on the canvas
SpeedFixedAtSpawnWitness ==
    /\ op.name = "levelUpCallback"
    /\ gameState.gameRunning
    /\ gameState.level = 2
    /\ Len(gameState.bubbles) >= 1
    /\ \A i \in 1..Len(gameState.bubbles) :
          gameState.bubbles[i].speed = 1 * PX

\* C19: for every bubble, at every moment of its life, points is 5 exactly
\* when the bubble is gold and 1 exactly when it is not.
PointsFollowGold ==
    \A i \in 1..Len(gameState.bubbles) :
        LET b == gameState.bubbles[i]
        IN  /\ b.points = 5 <=> b.isGold
            /\ b.points = 1 <=> ~b.isGold

\* a gold and a normal bubble on the canvas, some frames after they spawned
PointsFollowGoldWitness ==
    /\ Len(gameState.bubbles) = 2
    /\ gameState.bubbles[1].isGold
    /\ ~gameState.bubbles[2].isGold
    /\ gameState.bubbles[1].points = 5
    /\ gameState.bubbles[2].points = 1
    /\ gameState.bubbles[1].y > -50 * PX

\* C20: a click or a tap pops at most one bubble; when a bubble is popped it
\* is the last of the collection that contains the point, exactly it is
\* removed, and exactly its points are added by addScore.
ClickPopsTopmostOnly ==
    [][/\ (gameState'.bubblesPopped > gameState.bubblesPopped) =>
              gameState'.bubblesPopped = gameState.bubblesPopped + 1
       /\ op'.name = "processBubblePop" =>
              \E p \in ClickPoints :
                  \E k \in 1..Len(gameState.bubbles) :
                      /\ containsPoint(gameState.bubbles[k], p[1], p[2])
                      /\ \A j \in (k + 1)..Len(gameState.bubbles) :
                            ~containsPoint(gameState.bubbles[j], p[1], p[2])
                      /\ gameState'.bubbles =
                            SubSeq(gameState.bubbles, 1, k - 1)
                                \o SubSeq(gameState.bubbles, k + 1,
                                          Len(gameState.bubbles))
                      /\ gameState'.score =
                            gameState.score + gameState.bubbles[k].points
                      /\ gameState'.currentLevelScore =
                            gameState.currentLevelScore
                                + gameState.bubbles[k].points]_vars

\* the newer of two bubbles under the pointer was popped, the older is left
ClickPopsTopmostOnlyWitness ==
    /\ op.name = "processBubblePop"
    /\ gameState.bubblesSpawned = 2
    /\ Len(gameState.bubbles) = 1
    /\ \E p \in ClickPoints : containsPoint(gameState.bubbles[1], p[1], p[2])
    /\ gameState.bubbles[1].isGold
    /\ gameState.score = 1

(***************************************************************************)
(* Bubble specification: one Bubble object under calls of containsPoint,   *)
(* isOffScreen and update.  The bubble is gameState.bubbles[1]; op holds   *)
(* the call made last, its arguments and what it returned.                 *)
(***************************************************************************)
\* update calls followed
MaxUpdates == 3

BubbleYInputs == {100 * PX, 620 * PX, 629 * PX, 630 * PX, 650 * PX}
BubbleRadiusInputs == {20 * PX, 30 * PX}
PointXInputs == {100 * PX, 112 * PX, 113 * PX, 120 * PX, 121 * PX}
PointYInputs == {100 * PX, 116 * PX}
HeightInputs == {600 * PX}

BubbleInit ==
    /\ \E y \in BubbleYInputs, radius \in BubbleRadiusInputs, isGold \in BOOLEAN,
          bobOffset \in {0, 1} :
          gameState = [GameStateNew EXCEPT !.bubbles =
              << Bubble(GameStateNew, 100 * PX, y, isGold, radius, bobOffset,
                        StartTime) >>]
    /\ audioManager = AudioManagerNew
    /\ gameLoop = FALSE
    /\ timerInterval = FALSE
    /\ liveIntervals = [loop |-> 0, timer |-> 0]
    /\ levelUpTimeouts = 0
    /\ startsAwaiting = 0
    /\ now = StartTime
    /\ sumAdded = 0
    /\ op = [name |-> "new"]

CallContainsPoint ==
    /\ \E x \in PointXInputs, y \in PointYInputs :
          op' = [name |-> "containsPoint", x |-> x, y |-> y,
                 result |-> containsPoint(gameState.bubbles[1], x, y)]
    /\ UNCHANGED <<gameState, controllerVars, sumAdded>>

CallIsOffScreen ==
    /\ \E height \in HeightInputs :
          op' = [name |-> "isOffScreen", height |-> height,
                 result |-> isOffScreen(gameState.bubbles[1], height)]
    /\ UNCHANGED <<gameState, controllerVars, sumAdded>>

CallUpdate ==
    /\ now < StartTime + (MaxUpdates * 16)
    /\ now' = now + 16
    /\ gameState' = [gameState EXCEPT !.bubbles[1] = update(@, now')]
    /\ op' = [name |-> "update"]
    /\ UNCHANGED <<audioManager, gameLoop, timerInterval, liveIntervals,
                   levelUpTimeouts, startsAwaiting, sumAdded>>

BubbleNext ==
    \/ CallContainsPoint
    \/ CallIsOffScreen
    \/ CallUpdate

BubbleSpec == BubbleInit /\ [][BubbleNext]_vars

\* C21: containsPoint(px, py) is true exactly when (px - x)^2 + (py - y)^2 <=
\* radius^2; a point on the boundary is a hit: centre (100, 100), radius 20,
\* (120, 100) hits and (121, 100) misses.
ContainsPointIsDisc ==
    op.name = "containsPoint" =>
        LET b == gameState.bubbles[1]
            dx == op.x - b.x
            dy == op.y - b.y
        IN  /\ op.result <=> (dx * dx) + (dy * dy) <= b.radius * b.radius
            /\ (b.x = 100 * PX /\ b.y = 100 * PX /\ b.radius = 20 * PX
                    /\ op.y = 100 * PX) =>
                   /\ op.x = 120 * PX => op.result
                   /\ op.x = 121 * PX => ~op.result

\* the point (120, 100), on the boundary of the bubble at (100, 100), radius 20
ContainsPointIsDiscWitness ==
    /\ op.name = "containsPoint"
    /\ gameState.bubbles[1].x = 100 * PX
    /\ gameState.bubbles[1].y = 100 * PX
    /\ gameState.bubbles[1].radius = 20 * PX
    /\ op.x = 120 * PX
    /\ op.y = 100 * PX
    /\ op.result

\* C22: isOffScreen(height) is true exactly when y - radius > height: radius
\* 30, height 600: true at y = 650, false at y = 620 and at y = 630, where
\* y - radius = height.
OffScreenIsStrict ==
    op.name = "isOffScreen" =>
        LET b == gameState.bubbles[1]
        IN  /\ op.result <=> b.y - b.radius > op.height
            /\ (b.radius = 30 * PX /\ op.height = 600 * PX) =>
                   /\ b.y = 650 * PX => op.result
                   /\ b.y = 620 * PX => ~op.result
                   /\ b.y = 630 * PX => ~op.result

\* the bubble whose top edge is exactly on the bottom line
OffScreenIsStrictWitness ==
    /\ op.name = "isOffScreen"
    /\ gameState.bubbles[1].radius = 30 * PX
    /\ gameState.bubbles[1].y = 630 * PX
    /\ op.height = 600 * PX
    /\ ~op.result

(***************************************************************************)
(* Game loop specification: a running game some seconds into a run, with  *)
(* bubbles under the pointer and near the bottom of the canvas.  The game  *)
(* loop is followed one updateGame call at a time, among clicks, touches,  *)
(* timer ticks and level-up timeouts, until the run ends.  After an        *)
(* updateGame call op holds the GameState before the call.                 *)
(***************************************************************************)
\* updateGame calls followed
MaxTicks == 3
\* bubbles on the canvas at the start
MaxLive == 3

\* y of the bubbles at the start: under the pointer, mid-canvas, two frames
\* and one frame from the line y - radius > canvas.height
TickYInputs == {10 * PX, 300 * PX, (600 * PX) + 76, (600 * PX) + 78}

TickBubbles ==
    { Bubble(GameStateNew, 100 * PX, y, isGold, 79, 1, StartTime - 4000) :
        y \in TickYInputs, isGold \in BOOLEAN }

\* Date.now() when the bubble at index i was created: spawnBubble appends, so
\* a bubble is older than those after it
TickCreated(i) == StartTime - ((MaxLive + 2 - i) * 1000)

\* Collections of n bubbles the game loop can have built: every frame moves
\* all bubbles by the same speed and at most one is spawned per frame, at the
\* top, so a bubble is lower on the canvas than those after it.
TickCollections(n) ==
    { [i \in 1..n |-> [bs[i] EXCEPT !.created = TickCreated(i)]] :
        bs \in { f \in [1..n -> TickBubbles] :
                    \A i, j \in 1..n : i < j => f[i].y > f[j].y } }

TickInit ==
    /\ \E n \in 0..MaxLive :
          \E bs \in TickCollections(n), last \in {StartTime, StartTime - 784} :
              gameState = [GameState_startGame(GameStateNew) EXCEPT
                               !.bubbles = bs,
                               !.score = 3,
                               !.currentLevelScore = 3,
                               !.bubblesPopped = 3,
                               !.bubblesSpawned = 3 + n,
                               !.timeLeft = 2,
                               !.lastBubbleSpawn = last]
    /\ audioManager = AudioManagerNew
    /\ gameLoop = TRUE
    /\ timerInterval = TRUE
    /\ liveIntervals = [loop |-> 1, timer |-> 1]
    /\ levelUpTimeouts = 0
    /\ startsAwaiting = 0
    /\ now = StartTime
    /\ sumAdded = 3
    /\ op = [name |-> "new"]

\* the game loop's interval fires once
Tick ==
    /\ liveIntervals.loop > 0
    /\ gameState.gameRunning
    /\ now < StartTime + (MaxTicks * 16)
    /\ now' = now + 16
    /\ \E x \in XChoices, isGold \in BOOLEAN, radius \in RadiusChoices,
          bobOffset \in BobOffsetChoices :
          gameState' = updateGame(gameState, now',
                                  [x |-> x, isGold |-> isGold,
                                   radius |-> radius, bobOffset |-> bobOffset])
    /\ op' = [name |-> "updateGame", before |-> gameState]
    /\ UNCHANGED <<audioManager, gameLoop, timerInterval, liveIntervals,
                   levelUpTimeouts, startsAwaiting, sumAdded>>

TickNext ==
    \/ Tick
    \/ TimerCallback
    \/ HandleCanvasClick
    \/ HandleCanvasTouch
    \/ LevelUpTimeout

TickSpec == TickInit /\ [][TickNext]_vars

\* C23: a bubble removed because it fell off screen costs nothing: the
\* updateGame call that removes it leaves score, level score, level,
\* countdown, popped count and gold popped count as they were.
MissesCostNothing ==
    op.name = "updateGame" =>
        /\ gameState.score = op.before.score
        /\ gameState.currentLevelScore = op.before.currentLevelScore
        /\ gameState.level = op.before.level
        /\ gameState.timeLeft = op.before.timeLeft
        /\ gameState.bubblesPopped = op.before.bubblesPopped
        /\ gameState.goldBubblesPopped = op.before.goldBubblesPopped

\* a frame in which a bubble fell off screen
MissesCostNothingWitness ==
    /\ op.name = "updateGame"
    /\ Len(op.before.bubbles) = 3
    /\ Len(gameState.bubbles) = 2
    /\ gameState.bubblesSpawned = op.before.bubblesSpawned
    /\ gameState.score = 3

\* what C30 compares of a bubble: y, radius, gold or not
tickView(b) == <<b.y, b.radius, b.isGold>>

\* C30: one updateGame call moves every bubble that was live before it
\* exactly once, by its own speed, also when other bubbles are removed in the
\* same pass: the collection after the call begins with the bubbles of
\* before, in order, each y increased by its speed, less those that are then
\* off screen; no bubble left in the collection is off screen.
TickMovesEachOnce ==
    op.name = "updateGame" =>
        LET old == op.before.bubbles
            moved == [i \in 1..Len(old) |->
                        <<old[i].y + old[i].speed, old[i].radius, old[i].isGold>>]
            onScreen(t) == ~(t[1] - t[2] > canvasHeight)
            expected == SelectSeq(moved, onScreen)
            new == gameState.bubbles
        IN  /\ \/ Len(new) = Len(expected)
               \/ /\ Len(new) = Len(expected) + 1
                  /\ new[Len(new)].created = now
                  /\ gameState.bubblesSpawned = op.before.bubblesSpawned + 1
            /\ \A i \in 1..Len(expected) : tickView(new[i]) = expected[i]
            /\ \A i \in 1..Len(new) : ~(new[i].y - new[i].radius > canvasHeight)

\* a pass that removed the first bubble and kept the two after it
TickMovesEachOnceWitness ==
    /\ op.name = "updateGame"
    /\ Len(op.before.bubbles) = 3
    /\ op.before.bubbles[1].y = (600 * PX) + 78
    /\ op.before.bubbles[2].y = (600 * PX) + 76
    /\ op.before.bubbles[3].y = 300 * PX
    /\ Len(gameState.bubbles) = 2
    /\ gameState.bubbles[1].y = (600 * PX) + 78
    /\ gameState.bubbles[2].y = (300 * PX) + 2

(***************************************************************************)
(* Difficulty and accuracy, under EngineSpec and Spec.                     *)
(***************************************************************************)
\* the spawn interval of levels 1..7, in milliseconds
SpawnRateTable == <<800, 700, 600, 500, 400, 300, 200>>

AccuracyGuarded ==
    LET acc == calculateAccuracy(gameState)
    IN  /\ acc.den # 0
        /\ gameState.bubblesSpawned = 0 => acc.num = 0
        /\ gameState.bubblesSpawned # 0 =>
               acc.num * gameState.bubblesSpawned
                   = gameState.bubblesPopped * 100 * acc.den

\* pops counted on an engine that has spawned nothing
AccuracyGuardedWitness ==
    /\ gameState.bubblesSpawned = 0
    /\ gameState.bubblesPopped = 2
    /\ calculateAccuracy(gameState).num = 0

\* C27: in every state of a game the controller drives, bubblesPopped <=
\* bubblesSpawned, so calculateAccuracy() is between 0 and 100.
AccuracyInRange ==
    LET acc == calculateAccuracy(gameState)
    IN  /\ gameState.bubblesPopped <= gameState.bubblesSpawned
        /\ acc.den > 0
        /\ acc.num >= 0
        /\ acc.num <= 100 * acc.den

\* every bubble spawned so far has been popped: 100 per cent
AccuracyInRangeWitness ==
    /\ gameState.bubblesSpawned = 2
    /\ gameState.bubblesPopped = 2
    /\ calculateAccuracy(gameState).num = 100 * calculateAccuracy(gameState).den

(***************************************************************************)
(* A run from its start to the first level-up, and the counters of a run.  *)
(***************************************************************************)
\* GameState after the controller's start (resetGame, then startGame) and n
\* calls addScore(1)
RECURSIVE afterOnes(_, _)
afterOnes(gs, n) ==
    IF n = 0
    THEN GameState_startGame(resetGame(gs))
    ELSE addScore(afterOnes(gs, n - 1), 1)

\* C28: from any state, after a start and four addScore(1) the level is 1,
\* the level score 4, the target 5 and the target not reached; a fifth
\* addScore(1) gives level score 5 and the target reached; levelUp() then
\* gives level 2, level score 0, target 10, countdown 30, score still 5.
EndToEndRun ==
    LET four == afterOnes(gameState, 4)
        five == afterOnes(gameState, 5)
        up == levelUp(five)
    IN  /\ four.level = 1
        /\ four.currentLevelScore = 4
        /\ getCurrentTarget(four) = 5
        /\ ~hasReachedTarget(four)
        /\ five.level = 1
        /\ five.currentLevelScore = 5
        /\ hasReachedTarget(five)
        /\ up.level = 2
        /\ up.currentLevelScore = 0
        /\ getCurrentTarget(up) = 10
        /\ up.timeLeft = 30
        /\ up.score = 5
        /\ ~hasReachedTarget(up)

\* the state the scenario ends in, reached by the calls themselves
EndToEndRunWitness ==
    /\ op.name = "levelUp"
    /\ op.before = afterOnes(gameState, 5)
    /\ gameState.gameRunning
    /\ gameState.level = 2
    /\ gameState.score = 5
    /\ gameState.bubblesPopped = 5
    /\ gameState.goldBubblesPopped = 0
    /\ sumAdded = 5

\* C29: within one run, in every step (spawn, pop, removal off screen, timer
\* tick, level-up, the end of the run), spawned count, popped count, gold
\* popped count and level do not decrease.
CountersNeverDecrease ==
    [][/\ gameState'.bubblesSpawned >= gameState.bubblesSpawned
       /\ gameState'.bubblesPopped >= gameState.bubblesPopped
       /\ gameState'.goldBubblesPopped >= gameState.goldBubblesPopped
       /\ gameState'.level >= gameState.level]_vars

\* a run in which a bubble was spawned, one fell off screen, a gold one was
\* popped, the level went up and the time ran out
CountersNeverDecreaseWitness ==
    /\ ~gameState.gameRunning
    /\ gameState.timeLeft = 0
    /\ gameState.level = 2
    /\ gameState.bubblesSpawned = 6
    /\ gameState.bubblesPopped = 4
    /\ gameState.goldBubblesPopped = 1
    /\ Len(gameState.bubbles) = 1

(***************************************************************************)
(* The life of a bubble, spawning, and the handles of the two intervals.   *)
(***************************************************************************)
\* TickSpec with the browser's guarantee that the game loop's interval,
\* while it is not cleared, keeps calling updateGame
FairTickSpec ==
    /\ TickSpec
    /\ WF_vars(Tick)

\* the bubble created at time c, as a set of at most one bubble
bubbleCreatedAt(gs, c) ==
    { gs.bubbles[i] : i \in { j \in 1..Len(gs.bubbles) : gs.bubbles[j].created = c } }

\* updateGame calls still followed
ticksLeft == ((StartTime + (MaxTicks * 16)) - now) \div 16

SpawnsKeepInterval ==
    [][LET n == gameState'.bubblesSpawned - gameState.bubblesSpawned
           gap == now' - gameState.lastBubbleSpawn
       IN  /\ n \in {0, 1}
           /\ n = 1 =>
                 /\ gameState'.level = gameState.level
                 /\ gap > getBubbleSpawnRate(gameState)
                 /\ gap > 200
                 /\ gameState'.lastBubbleSpawn = now'
                 /\ gameState'.bubbles[Len(gameState'.bubbles)].created = now'
           /\ n = 0 => gameState'.lastBubbleSpawn = gameState.lastBubbleSpawn]_vars

\* a spawn on level 2, 800 ms after the spawn before it (interval 700 ms)
SpawnsKeepIntervalWitness ==
    /\ op.name = "updateGame"
    /\ gameState.level = 2
    /\ gameState.bubblesSpawned = op.before.bubblesSpawned + 1
    /\ now - op.before.lastBubbleSpawn = 800
    /\ gameState.lastBubbleSpawn = now

\* C33: a level-up scheduled in one run never takes effect in a later run:
\* the level of a run is above 1 only when that run's own level score has
\* reached the target of level 1, so only when the run has scored 5 points.
NoLevelUpFromEarlierRun ==
    gameState.level >= 2 => gameState.score >= levelTargets[1]

\* C34: at most one countdown interval and at most one game loop interval
\* are alive at any time, each being the one whose handle the controller
\* holds, under any order of starts, restarts, starts resumed after the audio
\* prompt and ends; and no step takes more than 1 off the countdown.
OneTimerOneLoop ==
    /\ [](/\ liveIntervals.timer <= 1
          /\ liveIntervals.loop <= 1
          /\ timerInterval <=> liveIntervals.timer = 1
          /\ gameLoop <=> liveIntervals.loop = 1)
    /\ [][gameState'.timeLeft >= gameState.timeLeft - 1]_vars

\* a restart that had been waiting for the audio prompt went on, with the
\* intervals of the start before it to clear
OneTimerOneLoopWitness ==
    /\ op.name = "startGame"
    /\ op.started
    /\ startsAwaiting = 0
    /\ levelUpTimeouts > 0
    /\ audioManager.contextState = "suspended"
    /\ liveIntervals = [loop |-> 1, timer |-> 1]

(***************************************************************************)
(* Pointer input and the bookkeeping of bubbles and points.                *)
(***************************************************************************)
\* C35: while the game is not running a click or a touch changes nothing:
\* score, level score, level, countdown, counters and the bubbles are as
\* before, also when the point is inside a bubble still in the collection.
PointerIgnoredWhenStopped ==
    ~gameState.gameRunning =>
        \A p \in ClickPoints :
            /\ handleCanvasClick(World, p[1], p[2]).gameState = gameState
            /\ handleCanvasTouch(World, p[1], p[2]).gameState = gameState
            /\ handleCanvasClick(World, p[1], p[2]).levelUpTimeouts = levelUpTimeouts
            /\ handleCanvasTouch(World, p[1], p[2]).levelUpTimeouts = levelUpTimeouts

\* game over with a bubble left under the pointer
PointerIgnoredWhenStoppedWitness ==
    /\ ~gameState.gameRunning
    /\ gameState.timeLeft = 0
    /\ op.name = "other"
    /\ \E p \in ClickPoints :
          \E i \in 1..Len(gameState.bubbles) :
              containsPoint(gameState.bubbles[i], p[1], p[2])

\* the creation times of the bubbles in the collection
createdIn(gs) == { gs.bubbles[i].created : i \in 1..Len(gs.bubbles) }

\* C36: a bubble is scored at most once.  A step that adds points removes
\* from the collection one bubble that was in it, adds exactly that bubble's
\* points and counts one pop; and a bubble that has left the collection,
\* popped or fallen off screen, never comes back: every bubble in the
\* collection after a step was in it before or has just been spawned.
ScoredAtMostOnce ==
    [][/\ gameState'.score > gameState.score =>
             \E k \in 1..Len(gameState.bubbles) :
                 /\ gameState.bubbles[k].created \notin createdIn(gameState')
                 /\ gameState'.score = gameState.score + gameState.bubbles[k].points
                 /\ gameState'.bubblesPopped = gameState.bubblesPopped + 1
                 /\ Len(gameState'.bubbles) = Len(gameState.bubbles) - 1
       /\ \A c \in createdIn(gameState') \ createdIn(gameState) :
             /\ c = now'
             /\ now' > now
             /\ gameState'.bubblesSpawned = gameState.bubblesSpawned + 1
       /\ Cardinality(createdIn(gameState')) = Len(gameState'.bubbles)]_vars

\* one bubble has fallen off screen and another has been popped; neither is
\* in the collection
ScoredAtMostOnceWitness ==
    /\ op.name = "processBubblePop"
    /\ gameState.bubblesSpawned = 6
    /\ gameState.bubblesPopped = 4
    /\ Len(gameState.bubbles) = 1
    /\ TickCreated(1) \notin createdIn(gameState)
    /\ TickCreated(2) \notin createdIn(gameState)

\* bubbles spawned in the run that are neither popped nor live
unaccounted(gs) == gs.bubblesSpawned - gs.bubblesPopped - Len(gs.bubbles)

\* bubbles of the collection that the next updateGame call moves off screen
fallingOff(gs) ==
    { i \in 1..Len(gs.bubbles) :
        (gs.bubbles[i].y + gs.bubbles[i].speed) - gs.bubbles[i].radius
            > canvasHeight }

\* C37: bubbles are conserved during a run: spawned count = popped count +
\* live bubbles + bubbles fallen off screen.  The spawned bubbles that are
\* neither popped nor live are none at the start, grow in each step by
\* exactly the bubbles that fall off screen in it, and so are never negative:
\* popped count + live bubbles <= spawned count.
BubblesConserved ==
    /\ [](gameState.bubblesPopped + Len(gameState.bubbles)
              <= gameState.bubblesSpawned)
    /\ [][unaccounted(gameState') =
              unaccounted(gameState)
                  + (IF now' > now THEN Cardinality(fallingOff(gameState)) ELSE 0)]_vars

\* one bubble spawned, one popped and one fallen off screen since the start
BubblesConservedWitness ==
    /\ unaccounted(gameState) = 1
    /\ gameState.bubblesSpawned = 6
    /\ gameState.bubblesPopped = 4
    /\ Len(gameState.bubbles) = 1
    /\ gameState.gameRunning

\* C38: in every state of a game driven by the controller the score is 1 for
\* each normal bubble popped plus 5 for each gold bubble popped, and the gold
\* pops are never more than the pops:
\* score = (bubblesPopped - goldBubblesPopped) * 1 + goldBubblesPopped * 5.
ScoreFromPopCounts ==
    /\ gameState.score =
          ((gameState.bubblesPopped - gameState.goldBubblesPopped) * 1)
              + (gameState.goldBubblesPopped * 5)
    /\ gameState.goldBubblesPopped <= gameState.bubblesPopped
    /\ gameState.goldBubblesPopped >= 0

\* C38: a run in which one gold and one normal bubble were popped: score 6
ScoreFromPopCountsWitness ==
    /\ op.name = "processBubblePop"
    /\ gameState.bubblesPopped = 2
    /\ gameState.goldBubblesPopped = 1
    /\ gameState.score = 6

\* C39: the target grows strictly with the level: at every level L >= 1 the
\* target of level L + 1 is greater than the target of level L, so a levelUp()
\* always raises the target; across the end of the table, level 10 gives 230
\* and level 11 gives 280.
TargetStrictlyIncreasing ==
    /\ gameState.level >= 1
    /\ getCurrentTarget([gameState EXCEPT !.level = @ + 1])
           > getCurrentTarget(gameState)
    /\ (gameState.level = 10 =>
           /\ getCurrentTarget(gameState) = 230
           /\ getCurrentTarget([gameState EXCEPT !.level = @ + 1]) = 280)
    /\ (gameState.level = 11 => getCurrentTarget(gameState) = 280)
    /\ (op.name = "levelUp" =>
           getCurrentTarget(gameState) > getCurrentTarget(op.before))

\* C39: levelUp() just took the engine from level 10, target 230, to level
\* 11, target 280
TargetStrictlyIncreasingWitness ==
    /\ op.name = "levelUp"
    /\ op.before.level = 10
    /\ getCurrentTarget(op.before) = 230
    /\ gameState.level = 11
    /\ getCurrentTarget(gameState) = 280

====
